---- MODULE Spec2Model ----
(***************************************************************************)
(* wtf-git: one run of `wtf [repo_path] [-n num_commits]` (src/main.rs).   *)
(*                                                                         *)
(* The run is the sequential body of analyze_repository.  Every external   *)
(* collaborator (the .env file, the git repository, the HTTP endpoint) is  *)
(* an input drawn when the code reads it:                                  *)
(*   - the .env file is a sequence of lines, a line a sequence of tokens   *)
(*     (KeyPrefix is the text "OPENAI_API_KEY=", ValueTok any other text); *)
(*   - the repository is a commit graph: commit c has an ordered parent    *)
(*     list of older commits and commit time c; head names a commit, or is *)
(*     NoHead for an unborn branch (a repository without commits);         *)
(*     commits are numbered in commit-time order;                          *)
(*   - an endpoint outcome says whether the request was sent, the status,  *)
(*     whether the body could be read, and the body.                       *)
(* Left out: the progress lines printed on the way, and the panic of the   *)
(* byte slices at lines 131 and 149 on a value whose 4th byte is not a     *)
(* character boundary.                                                     *)
(***************************************************************************)
EXTENDS Integers, Sequences, FiniteSets, TLC

(* ------------------------------ bounds -------------------------------- *)
MaxCommits == 3
MaxN == 3
MaxLines == 2

(* ------------------------------ inputs -------------------------------- *)
KeyPrefix == "OPENAI_API_KEY="
ValueTok == "v"
EnvLines == {<<>>, <<KeyPrefix>>, <<KeyPrefix, ValueTok>>, <<ValueTok>>, <<KeyPrefix, KeyPrefix>>}
SeqsUpTo(S, n) == UNION {[1..k -> S] : k \in 0..n}
EnvFiles == SeqsUpTo(EnvLines, MaxLines)

NoHead == 0
CommitIds == 1..MaxCommits
ParentLists(c) ==
  {<<>>} \cup {<<p>> : p \in 1..(c - 1)}
         \cup {<<p, q>> : <<p, q>> \in {pq \in (1..(c - 1)) \X (1..(c - 1)) : pq[1] # pq[2]}}
AllParentLists == UNION {ParentLists(c) : c \in CommitIds}
Repos ==
  [parents : {g \in [CommitIds -> AllParentLists] : \A c \in CommitIds : g[c] \in ParentLists(c)},
   head : {NoHead} \cup CommitIds]
NoRepo == [parents |-> [c \in CommitIds |-> <<>>], head |-> NoHead]

Texts == {"a", "b"}
ChoiceLists == {<<>>, <<"a">>, <<"b", "a">>}
Statuses == {200, 201, 401}
JunkBody == [json |-> FALSE, choices |-> <<>>]
Bodies == {JunkBody} \cup {[json |-> TRUE, choices |-> ch] : ch \in ChoiceLists}
SendFailure == [sent |-> FALSE, status |-> 0, readable |-> FALSE, body |-> JunkBody]
Outcomes ==
  {SendFailure}
    \cup {[sent |-> TRUE, status |-> s, readable |-> FALSE, body |-> JunkBody] : s \in Statuses}
    \cup {[sent |-> TRUE, status |-> s, readable |-> TRUE, body |-> b] : s \in Statuses, b \in Bodies}

(* ------------------------------- state -------------------------------- *)
VARIABLES
  pc,                 \* position in analyze_repository
  num_commits,        \* args.num_commits
  env_contents,       \* the .env file as read (line 141)
  api_key,            \* tokens of the key value; <<>> is the empty string
  repo,               \* the opened repository
  repo_opened,        \* Repository::open returned Ok
  commit_count, num_to_analyze,
  walk_queue, walk_seen,   \* the second revwalk's pending and visited commits
  commits, commit_details, \* the walked batch and its formatted records
  readme_content,
  project_description, commit_descriptions, edits_description,
  file_changes,       \* the diff list of the edits step
  diff_index,         \* next batch position of the diff loop
  calls,              \* endpoint calls issued: [kind, content, result]
  response,           \* what the endpoint did on the latest call
  output,             \* the "no commits" notice and the result sections written
                      \* to standard output (progress lines are left out)
  result, error, exit_code

vars == <<pc, num_commits, env_contents, api_key, repo, repo_opened, commit_count,
          num_to_analyze, walk_queue, walk_seen, commits, commit_details,
          readme_content, project_description, commit_descriptions,
          edits_description, file_changes, diff_index, calls, response,
          output, result, error, exit_code>>

Unset == "<unset>"
Running == "running"
NoExit == -1

(* --------------------------- pure functions --------------------------- *)
Min(a, b) == IF a <= b THEN a ELSE b
Last(s) == s[Len(s)]
ParentSet(r, c) == {r.parents[c][i] : i \in 1..Len(r.parents[c])}

\* line 146: line.starts_with("OPENAI_API_KEY=")
StartsWithKey(line) == line # <<>> /\ Head(line) = KeyPrefix

\* line 147: line.trim_start_matches("OPENAI_API_KEY="), which strips the
\* prefix repeatedly
RECURSIVE TrimStartMatches(_)
TrimStartMatches(line) ==
  IF StartsWithKey(line) THEN TrimStartMatches(Tail(line)) ELSE line

\* lines 144-156: the value of the first line that starts with the key
\* (the loop breaks there), or the empty string.
\* ParseApiKey_NoBreak is the loop without its break: the last entry wins.
RECURSIVE ParseApiKey_NoBreak(_)
ParseApiKey_NoBreak(lines) ==
  IF lines = <<>> THEN <<>>
  ELSE IF \E i \in 2..Len(lines) : StartsWithKey(lines[i])
       THEN ParseApiKey_NoBreak(Tail(lines))
       ELSE IF StartsWithKey(Head(lines)) THEN TrimStartMatches(Head(lines)) ELSE <<>>

RECURSIVE ParseApiKey(_)
ParseApiKey(lines) ==
  IF lines = <<>> THEN <<>>
  ELSE IF StartsWithKey(Head(lines)) THEN TrimStartMatches(Head(lines))
       ELSE ParseApiKey(Tail(lines))

\* The revision walk (git2 Revwalk, default sorting): the pending commit
\* with the latest commit time comes out next, and its parents not yet
\* seen become pending.
PopCommit(queue) == CHOOSE c \in queue : \A d \in queue : d <= c

RevwalkAfterNext(r, queue, seen) ==
  LET c == PopCommit(queue)
      new == ParentSet(r, c) \ seen
  IN [queue |-> (queue \ {c}) \cup new, seen |-> seen \cup new]

\* line 181: revwalk.count()
RECURSIVE RevwalkCount(_, _, _)
RevwalkCount(r, queue, seen) ==
  IF queue = {} THEN 0
  ELSE LET w == RevwalkAfterNext(r, queue, seen)
       IN 1 + RevwalkCount(r, w.queue, w.seen)

\* line 188 (NumToAnalyze_All: the variant that forgets the requested count)
NumToAnalyze_All(n, count) == count
NumToAnalyze(n, count) == Min(n, count)

\* lines 48-63: the formatted record of a commit (its id; author, date and
\* message are not part of the repository model)
GetCommitDetails(c) == <<"Commit", c>>

\* line 232: commits.len() > 1 (UseEditsCall_Always: the variant that
\* compares with >= 1)
UseEditsCall_Always(batch) == Len(batch) >= 1
UseEditsCall(batch) == Len(batch) > 1

\* line 235: commit.parent(0).ok() is Some (HasFirstParent_SingleOnly: the
\* variant that takes only commits with a single parent)
HasFirstParent_SingleOnly(r, c) == Len(r.parents[c]) = 1
HasFirstParent(r, c) == Len(r.parents[c]) >= 1

\* lines 236-248: the patch text between the first parent's tree and the
\* commit's tree
DiffTreeToTree(r, c) == [old |-> r.parents[c][1], new |-> c]

\* line 93: response.status().is_success() (IsSuccess_Only200: the variant
\* that accepts status 200 alone)
IsSuccess_Only200(status) == status = 200
IsSuccess(status) == 200 <= status /\ status <= 299

Ok(t) == [ok |-> TRUE, text |-> t, err |-> "none", body |-> JunkBody]
Err(e, b) == [ok |-> FALSE, text |-> Unset, err |-> e, body |-> b]

\* lines 85-114
GetPlainLanguageDescription(o) ==
  IF ~o.sent THEN Err("TransportError", JunkBody)                  \* line 90
  ELSE IF ~IsSuccess(o.status)
       THEN IF ~o.readable THEN Err("TransportError", JunkBody)    \* line 94
            ELSE Err("EndpointError", o.body)                      \* line 96
  ELSE IF ~o.readable \/ ~o.body.json
       THEN Err("MalformedResponse", JunkBody)                     \* line 112
  ELSE IF o.body.choices = <<>>
       THEN Err("EmptyChoices", JunkBody)                          \* line 107
  ELSE Ok(Head(o.body.choices))                                    \* line 105

NoCommitsNotice == [heading |-> <<"No commits found in the repository.">>, text |-> ""]
OnlyOneCommitNotice ==
  "Repository has only one commit, so there are no previous versions to compare changes against."
NoReadme == "No README.md found"

\* lines 264-271 (ResultSections_EditsFirst: the variant that prints the
\* edit summary first)
ResultSections_EditsFirst(n, pd, cd, ed) ==
  << [heading |-> <<"DETAILED ANALYSIS OF RECENT EDITS">>, text |-> ed],
     [heading |-> <<"PROJECT DESCRIPTION">>, text |-> pd],
     [heading |-> <<"LAST", n, "COMMITS IN PLAIN LANGUAGE">>, text |-> cd] >>
ResultSections(n, pd, cd, ed) ==
  << [heading |-> <<"PROJECT DESCRIPTION">>, text |-> pd],
     [heading |-> <<"LAST", n, "COMMITS IN PLAIN LANGUAGE">>, text |-> cd],
     [heading |-> <<"DETAILED ANALYSIS OF RECENT EDITS">>, text |-> ed] >>
(* ------------------------------- actions ------------------------------ *)
Init ==
  /\ pc = "load_env"
  /\ num_commits \in 0..MaxN
  /\ env_contents = <<>>
  /\ api_key = <<>>
  /\ repo = NoRepo
  /\ repo_opened = FALSE
  /\ commit_count = 0
  /\ num_to_analyze = 0
  /\ walk_queue = {}
  /\ walk_seen = {}
  /\ commits = <<>>
  /\ commit_details = <<>>
  /\ readme_content = Unset
  /\ project_description = Unset
  /\ commit_descriptions = Unset
  /\ edits_description = Unset
  /\ file_changes = <<>>
  /\ diff_index = 0
  /\ calls = <<>>
  /\ response = SendFailure
  /\ output = <<>>
  /\ result = Running
  /\ error = "none"
  /\ exit_code = NoExit

\* A `?` or `return Err(..)`: analyze_repository returns the error, main
\* returns it (line 279) and the process exits with a non-zero code.
\* Abort_FlushPartial prints the results obtained so far before returning.
Abort_FlushPartial(e) ==
  /\ pc' = "done"
  /\ result' = "Err"
  /\ error' = e
  /\ exit_code' = 1
  /\ output' = IF project_description = Unset THEN output
               ELSE output \o ResultSections(num_commits, project_description,
                                              commit_descriptions, edits_description)
Abort(e) ==
  /\ pc' = "done"
  /\ result' = "Err"
  /\ error' = e
  /\ exit_code' = 1
  /\ output' = output

Continue(next) ==
  /\ pc' = next
  /\ UNCHANGED <<result, error, exit_code, output>>

\* lines 119-142: load the environment (dotenv and the scan of env::vars
\* only print) and read the .env file
ReadEnvFile ==
  /\ pc = "load_env"
  /\ UNCHANGED <<response, num_commits, api_key, repo, repo_opened, commit_count,
                 num_to_analyze, walk_queue, walk_seen, commits, commit_details,
                 readme_content, project_description, commit_descriptions,
                 edits_description, file_changes, diff_index, calls>>
  /\ \E readable \in BOOLEAN, file \in EnvFiles :
       IF ~readable
       THEN /\ UNCHANGED env_contents
            /\ Abort("EnvFileUnreadable")                  \* line 142
       ELSE /\ env_contents' = file
            /\ Continue("parse_key")

\* lines 144-160: take the key, fail when it is empty.  env_contents is not
\* read after line 156: the state forgets it once the key is taken.
LoadCredential ==
  /\ pc = "parse_key"
  /\ UNCHANGED <<response, num_commits, repo, repo_opened, commit_count, num_to_analyze,
                 walk_queue, walk_seen, commits, commit_details, readme_content,
                 project_description, commit_descriptions, edits_description,
                 file_changes, diff_index, calls>>
  /\ api_key' = ParseApiKey(env_contents)
  /\ IF api_key' = <<>>
     THEN /\ UNCHANGED env_contents
          /\ Abort("CredentialMissing")                    \* line 159
     ELSE /\ env_contents' = <<>>
          /\ Continue("open_repo")

\* lines 163-171
OpenRepository ==
  /\ pc = "open_repo"
  /\ UNCHANGED <<response, num_commits, env_contents, api_key, commit_count, num_to_analyze,
                 walk_queue, walk_seen, commits, commit_details, readme_content,
                 project_description, commit_descriptions, edits_description,
                 file_changes, diff_index, calls>>
  /\ \E found \in BOOLEAN, r \in Repos :
       IF ~found
       THEN /\ UNCHANGED <<repo, repo_opened>>
            /\ Abort("RepositoryUnavailable")              \* line 169
       ELSE /\ repo' = r
            /\ repo_opened' = TRUE
            /\ Continue("count")
\* lines 174-195: count the walk from head, start the walk again, fix the
\* number of commits to analyze; nothing to analyze ends the run with Ok.
\* revwalk() and push_head() fail on a library error, and push_head() fails
\* when head is an unborn branch.
StartWalk ==
  /\ pc = "count"
  /\ UNCHANGED <<response, num_commits, env_contents, api_key, repo, repo_opened, commits,
                 commit_details, readme_content, project_description,
                 commit_descriptions, edits_description, file_changes, diff_index,
                 calls>>
  /\ \E fault \in BOOLEAN :
       IF fault \/ repo.head = NoHead
       THEN /\ UNCHANGED <<commit_count, num_to_analyze, walk_queue, walk_seen>>
            /\ Abort(IF fault THEN "RevwalkError" ELSE "UnbornHead")  \* lines 174-175
       ELSE /\ commit_count' = RevwalkCount(repo, {repo.head}, {repo.head})
            /\ num_to_analyze' = NumToAnalyze(num_commits, commit_count')
            /\ walk_queue' = {repo.head}
            /\ walk_seen' = {repo.head}
            /\ IF num_to_analyze' = 0
               THEN /\ pc' = "done"                        \* lines 190-193
                    /\ output' = Append(output, NoCommitsNotice)
                    /\ result' = "Ok"
                    /\ exit_code' = 0
                    /\ UNCHANGED error
               ELSE Continue("walk")

\* lines 197-205: one iteration of revwalk.take(num_to_analyze); the loop
\* ends when the take is used up or the walk has no more commits
WalkStep ==
  /\ pc = "walk"
  /\ walk_queue # {}
  /\ Len(commits) < num_to_analyze
  /\ UNCHANGED <<response, num_commits, env_contents, api_key, repo, repo_opened, commit_count,
                 num_to_analyze, readme_content, project_description,
                 commit_descriptions, edits_description, file_changes, diff_index,
                 calls>>
  /\ \E fault \in BOOLEAN :
       IF fault
       THEN /\ UNCHANGED <<walk_queue, walk_seen, commits, commit_details>>
            /\ Abort("TraversalError")                     \* lines 198-199
       ELSE LET c == PopCommit(walk_queue)
                w == RevwalkAfterNext(repo, walk_queue, walk_seen)
            IN /\ walk_queue' = w.queue
               /\ walk_seen' = w.seen
               /\ commit_details' = Append(commit_details, GetCommitDetails(c))
               /\ commits' = Append(commits, c)
               /\ Continue(IF w.queue = {} \/ Len(commits') >= num_to_analyze
                           THEN "readme" ELSE "walk")

\* lines 208-211
ReadReadme ==
  /\ pc = "readme"
  /\ UNCHANGED <<response, num_commits, env_contents, api_key, repo, repo_opened, commit_count,
                 num_to_analyze, walk_queue, walk_seen, commits, commit_details,
                 project_description, commit_descriptions, edits_description,
                 file_changes, diff_index, calls>>
  /\ \E found \in BOOLEAN :
       readme_content' = IF found THEN "README.md text" ELSE NoReadme
  /\ Continue("call1")

\* One call of get_plain_language_description (lines 65-115) with `?`
\* applied to its result; r is the result of the call just appended.
CallEndpoint(kind, content) ==
  \E o \in Outcomes :
    /\ response' = o
    /\ calls' = Append(calls, [kind |-> kind, content |-> content,
                               result |-> GetPlainLanguageDescription(o)])

\* lines 215-219
Call1 ==
  /\ pc = "call1"
  /\ UNCHANGED <<num_commits, env_contents, api_key, repo, repo_opened, commit_count,
                 num_to_analyze, walk_queue, walk_seen, commits, commit_details,
                 readme_content, commit_descriptions, edits_description,
                 file_changes, diff_index>>
  /\ CallEndpoint("project-description", <<readme_content>>)
  /\ LET r == Last(calls').result
     IN IF r.ok
        THEN project_description' = r.text /\ Continue("call2")
        ELSE UNCHANGED project_description /\ Abort(r.err)

\* lines 224-228; Call2_IgnoreFailure goes on with an empty text when the
\* call fails
Call2_IgnoreFailure ==
  /\ pc = "call2"
  /\ UNCHANGED <<num_commits, env_contents, api_key, repo, repo_opened, commit_count,
                 num_to_analyze, walk_queue, walk_seen, commits, commit_details,
                 readme_content, project_description, edits_description,
                 file_changes, diff_index>>
  /\ CallEndpoint("commit-explanation", commit_details)
  /\ LET r == Last(calls').result
     IN /\ commit_descriptions' = IF r.ok THEN r.text ELSE ""
        /\ Continue("edits")
Call2 ==
  /\ pc = "call2"
  /\ UNCHANGED <<num_commits, env_contents, api_key, repo, repo_opened, commit_count,
                 num_to_analyze, walk_queue, walk_seen, commits, commit_details,
                 readme_content, project_description, edits_description,
                 file_changes, diff_index>>
  /\ CallEndpoint("commit-explanation", commit_details)
  /\ LET r == Last(calls').result
     IN IF r.ok
        THEN commit_descriptions' = r.text /\ Continue("edits")
        ELSE UNCHANGED commit_descriptions /\ Abort(r.err)

\* lines 232-233 and 259-261
EditsBranch ==
  /\ pc = "edits"
  /\ UNCHANGED <<response, num_commits, env_contents, api_key, repo, repo_opened, commit_count,
                 num_to_analyze, walk_queue, walk_seen, commits, commit_details,
                 readme_content, project_description, commit_descriptions,
                 file_changes, calls>>
  /\ IF UseEditsCall(commits)
     THEN /\ diff_index' = 1
          /\ UNCHANGED edits_description
          /\ Continue("diff")
     ELSE /\ edits_description' = OnlyOneCommitNotice
          /\ UNCHANGED diff_index
          /\ Continue("print")

\* lines 234-250: one iteration of `for commit in &commits`
DiffStep ==
  /\ pc = "diff"
  /\ diff_index <= Len(commits)
  /\ UNCHANGED <<response, num_commits, env_contents, api_key, repo, repo_opened, commit_count,
                 num_to_analyze, walk_queue, walk_seen, commits, commit_details,
                 readme_content, project_description, commit_descriptions,
                 edits_description, calls>>
  /\ LET c == commits[diff_index]
         next == IF diff_index = Len(commits) THEN "call3" ELSE "diff"
     IN IF HasFirstParent(repo, c)
        THEN \E fault \in BOOLEAN :
               IF fault
               THEN /\ UNCHANGED <<file_changes, diff_index>>
                    /\ Abort("DiffComputationError")       \* lines 237-246
               ELSE /\ file_changes' = Append(file_changes, DiffTreeToTree(repo, c))
                    /\ diff_index' = diff_index + 1
                    /\ Continue(next)
        ELSE /\ UNCHANGED file_changes
             /\ diff_index' = diff_index + 1
             /\ Continue(next)

\* lines 254-258
Call3 ==
  /\ pc = "call3"
  /\ UNCHANGED <<num_commits, env_contents, api_key, repo, repo_opened, commit_count,
                 num_to_analyze, walk_queue, walk_seen, commits, commit_details,
                 readme_content, project_description, commit_descriptions,
                 file_changes, diff_index>>
  /\ CallEndpoint("edit-explanation", file_changes)
  /\ LET r == Last(calls').result
     IN IF r.ok
        THEN edits_description' = r.text /\ Continue("print")
        ELSE UNCHANGED edits_description /\ Abort(r.err)

\* lines 263-273, and main's Ok (line 279)
PrintResults ==
  /\ pc = "print"
  /\ UNCHANGED <<response, num_commits, env_contents, api_key, repo, repo_opened, commit_count,
                 num_to_analyze, walk_queue, walk_seen, commits, commit_details,
                 readme_content, project_description, commit_descriptions,
                 edits_description, file_changes, diff_index, calls, error>>
  /\ output' = output \o ResultSections(num_commits, project_description,
                                         commit_descriptions, edits_description)
  /\ pc' = "done"
  /\ result' = "Ok"
  /\ exit_code' = 0

Next ==
  \/ ReadEnvFile
  \/ LoadCredential
  \/ OpenRepository
  \/ StartWalk
  \/ WalkStep
  \/ ReadReadme
  \/ Call1
  \/ Call2
  \/ EditsBranch
  \/ DiffStep
  \/ Call3
  \/ PrintResults

Spec == Init /\ [][Next]_vars
(* ------------------------ vocabulary of the claims -------------------- *)
Head0 == repo.head
ParentsIn(S) == UNION {ParentSet(repo, c) : c \in S}

\* commits reachable from head: the least set holding head and closed
\* under parents
RECURSIVE Closure(_)
Closure(S) == IF ParentsIn(S) \subseteq S THEN S ELSE Closure(S \cup ParentsIn(S))
ReachableFromHead == IF Head0 = NoHead THEN {} ELSE Closure({Head0})
C == Cardinality(ReachableFromHead)

Batch(i) == {commits[j] : j \in 1..i}
\* what the walk may yield at position i: head or a parent of an earlier
\* commit of the batch, not yielded before
Frontier(i) == (({Head0} \cup ParentsIn(Batch(i - 1))) \ Batch(i - 1)) \ {NoHead}

WalkFinished ==
  \/ pc \in {"readme", "call1", "call2", "edits", "diff", "call3", "print"}
  \/ pc = "done" /\ (result = "Ok" \/ calls # <<>> \/ error = "DiffComputationError")
DiffLoopFinished == pc = "call3" \/ Len(calls) = 3
Kinds == [i \in 1..Len(calls) |-> calls[i].kind]
CallOrder == <<"project-description", "commit-explanation", "edit-explanation">>
SectionHeadings ==
  {<<"PROJECT DESCRIPTION">>, <<"LAST", num_commits, "COMMITS IN PLAIN LANGUAGE">>,
   <<"DETAILED ANALYSIS OF RECENT EDITS">>}
PrintedSections == {i \in 1..Len(output) : output[i].heading \in SectionHeadings}
Succeeded == pc = "done" /\ result = "Ok"
Failed == pc = "done" /\ result = "Err"

(* -------------------------------- C1 ---------------------------------- *)
\* C1: when the commit walk has finished, the batch holds exactly
\* min(num_commits, C) commits, C the number of commits reachable from head;
\* at every moment the batch is a prefix of the revision walk from head:
\* head first, then always the latest pending commit, none repeated.
C1_WalkYieldsFirstMin ==
  /\ Len(commits) <= Min(num_commits, C)
  /\ \A i \in 1..Len(commits) :
        /\ commits[i] \in Frontier(i)
        /\ \A d \in Frontier(i) : d <= commits[i]
  /\ commits # <<>> => commits[1] = Head0
  /\ WalkFinished => Len(commits) = Min(num_commits, C)

C1_Witness ==
  /\ WalkFinished
  /\ C = 3
  /\ num_commits = 2
  /\ commits = <<3, 2>>
  /\ repo.parents[3] = <<1, 2>>

(* -------------------------------- C2 ---------------------------------- *)
\* C2: a run on a repository with zero commits reachable from head (C = 0)
\* ends with Ok and exit code 0, after the "no commits" notice and without
\* any endpoint call (a run in which the library fails to create the walk
\* aside).
C2_EmptyRepositorySucceeds ==
  (repo_opened /\ C = 0 /\ pc = "done" /\ error # "RevwalkError")
    => /\ result = "Ok"
       /\ exit_code = 0
       /\ calls = <<>>
       /\ output = <<NoCommitsNotice>>

(* -------------------------------- C3 ---------------------------------- *)
WithParents(k) == SelectSeq(commits, LAMBDA c : Len(repo.parents[c]) >= k)
ExactlyOneParent == SelectSeq(commits, LAMBDA c : Len(repo.parents[c]) = 1)

\* C3 (as amended): when the diff step has run over the batch, every commit
\* of the batch with at least one parent, a merge included, has exactly one
\* entry in file_changes, the diff against its first parent; a root commit
\* has none; the entries keep the batch order and are never more than the
\* batch.
C3_OneEntryPerCommitWithParent ==
  /\ Len(file_changes) <= Len(commits)
  /\ DiffLoopFinished =>
        /\ Len(file_changes) = Len(WithParents(1))
        /\ \A i \in 1..Len(file_changes) :
              file_changes[i] = [old |-> repo.parents[WithParents(1)[i]][1],
                                 new |-> WithParents(1)[i]]

\* C3 as stated: a merge commit contributes no entry, so the entries are
\* those of the commits with exactly one parent.
C3_MergesContributeNothing ==
  DiffLoopFinished =>
    /\ Len(file_changes) = Len(ExactlyOneParent)
    /\ \A i \in 1..Len(ExactlyOneParent) : file_changes[i].new = ExactlyOneParent[i]

C3_Witness ==
  /\ DiffLoopFinished
  /\ Len(commits) = 3
  /\ Len(repo.parents[commits[1]]) = 2
  /\ Len(repo.parents[commits[2]]) = 1
  /\ Len(repo.parents[commits[3]]) = 0
  /\ Len(file_changes) = 2

(* -------------------------------- C4 ---------------------------------- *)
\* C4: in a run that succeeds with a non-empty batch, a batch of one commit
\* means exactly the two calls project-description and commit-explanation
\* and the fixed notice as edit summary; a larger batch means exactly three
\* calls and the text of the third as edit summary.
C4_CallsAndEditSummary ==
  (Succeeded /\ commits # <<>>) =>
    /\ Len(commits) = 1 =>
          /\ Kinds = SubSeq(CallOrder, 1, 2)
          /\ edits_description = OnlyOneCommitNotice
          /\ Last(output).text = OnlyOneCommitNotice
    /\ Len(commits) > 1 =>
          /\ Kinds = CallOrder
          /\ response.sent /\ response.readable /\ response.body.choices # <<>>
          /\ edits_description = response.body.choices[1]
          /\ Last(output).text = response.body.choices[1]

C4_Witness ==
  /\ Succeeded
  /\ Len(commits) = 1
  /\ num_commits = 2
  /\ Len(calls) = 2
  /\ edits_description = OnlyOneCommitNotice

(* -------------------------------- C5 ---------------------------------- *)
\* C5: a run that fails has stopped at the failing step with a non-zero
\* exit code: nothing of a later step has happened, and none of the three
\* result sections is printed, whatever the endpoint had already returned.
C5_FailFastNoPartialOutput ==
  result = "Err" =>
    /\ pc = "done"
    /\ exit_code # 0 /\ exit_code # NoExit
    /\ PrintedSections = {}
    /\ output = <<>>
    /\ error \in {"EnvFileUnreadable", "CredentialMissing", "RepositoryUnavailable"}
          => ~repo_opened /\ commits = <<>> /\ calls = <<>>
    /\ error \in {"RevwalkError", "UnbornHead", "TraversalError"}
          => calls = <<>> /\ readme_content = Unset
    /\ error = "DiffComputationError"
          => Len(calls) = 2 /\ edits_description = Unset
    /\ error \in {"TransportError", "EndpointError", "MalformedResponse", "EmptyChoices"}
          => /\ calls # <<>>
             /\ ~Last(calls).result.ok
             /\ Last(calls).result.err = error
             /\ Len(calls) <= 1 => project_description = Unset
             /\ Len(calls) <= 2 => commit_descriptions = Unset /\ file_changes = <<>>
             /\ edits_description = Unset

C5_Witness ==
  /\ Failed
  /\ Len(calls) = 3
  /\ project_description \in Texts
  /\ commit_descriptions \in Texts
  /\ output = <<>>
(* -------------------------------- C6 ---------------------------------- *)
Is2xx(o) == o.status \in 200..299
LastResult == Last(calls).result

\* C6 (as amended): every endpoint outcome gets exactly one result.  A 2xx
\* response whose body is read and parses with at least one choice returns
\* the first choice's content; a non-2xx response whose body text is read
\* fails with the endpoint error carrying that text; a 2xx response with an
\* empty choices list fails with the empty-choices error; a 2xx response
\* whose body cannot be read or does not parse fails with the
\* malformed-response error; a request that cannot be sent, and a non-2xx
\* response whose body cannot be read, fail with the transport error.  No
\* failure returns a text.
C6_OutcomeClassification ==
  calls # <<>> =>
    LET o == response
        r == LastResult
    IN /\ (o.sent /\ Is2xx(o) /\ o.readable /\ o.body.json /\ o.body.choices # <<>>)
            => r = [ok |-> TRUE, text |-> o.body.choices[1], err |-> "none", body |-> JunkBody]
       /\ (o.sent /\ ~Is2xx(o) /\ o.readable)
            => ~r.ok /\ r.err = "EndpointError" /\ r.body = o.body
       /\ (o.sent /\ Is2xx(o) /\ o.readable /\ o.body.json /\ o.body.choices = <<>>)
            => ~r.ok /\ r.err = "EmptyChoices"
       /\ (o.sent /\ Is2xx(o) /\ (~o.readable \/ ~o.body.json))
            => ~r.ok /\ r.err = "MalformedResponse"
       /\ (~o.sent \/ (~Is2xx(o) /\ ~o.readable))
            => ~r.ok /\ r.err = "TransportError"
       /\ ~r.ok => r.text = Unset /\ Failed /\ error = r.err

\* C6 as stated: every non-2xx response fails with the endpoint error
\* carrying the response body text.
C6_Non2xxIsEndpointError ==
  (calls # <<>> /\ response.sent /\ ~Is2xx(response))
    => ~LastResult.ok /\ LastResult.err = "EndpointError" /\ LastResult.body = response.body

C6_Witness ==
  /\ calls # <<>>
  /\ response.sent /\ response.status = 401 /\ response.readable
  /\ response.body.choices = <<"a">>
  /\ LastResult.err = "EndpointError"
  /\ LastResult.body = response.body

(* -------------------------------- C7 ---------------------------------- *)
KeyLines(f) == {i \in 1..Len(f) : f[i] # <<>> /\ f[i][1] = KeyPrefix}
FirstKeyLine(f) == CHOOSE i \in KeyLines(f) : \A j \in KeyLines(f) : i <= j
\* the file has no OPENAI_API_KEY entry, or nothing follows the `=` of the
\* entry (the first one, when there are several)
NoUsableKey(f) == KeyLines(f) = {} \/ Len(f[FirstKeyLine(f)]) = 1

\* C7: when the .env file has no OPENAI_API_KEY entry, or an empty value
\* for it, the credential step ends the run with an error, whatever
\* num_commits is: the repository is not opened and no endpoint call is
\* made.  The repository is opened, and calls are made, only with a
\* non-empty key.
C7_MissingKeyFailsAtStartup ==
  /\ [][(pc = "parse_key" /\ NoUsableKey(env_contents)) =>
          /\ pc' = "done"
          /\ result' = "Err"
          /\ error' = "CredentialMissing"
          /\ exit_code' = 1
          /\ ~repo_opened'
          /\ calls' = <<>>]_vars
  /\ [](error \in {"CredentialMissing", "EnvFileUnreadable"}
          => Failed /\ ~repo_opened /\ calls = <<>>)
  /\ []((repo_opened \/ calls # <<>>) => api_key # <<>>)

C7_Witness ==
  /\ Failed
  /\ error = "CredentialMissing"
  /\ env_contents = << <<KeyPrefix>>, <<KeyPrefix, ValueTok>> >>
  /\ num_commits = 1
  /\ ~repo_opened

(* -------------------------------- C8 ---------------------------------- *)
\* C8: a run that succeeds with a non-empty batch has printed exactly the
\* three sections, once each, in the order project description, commit
\* summary, edit summary, and exits with code 0; a section is printed only
\* when every endpoint call of the run has returned.
C8_ThreeSectionsInOrder ==
  /\ (Succeeded /\ commits # <<>>) =>
        /\ output =
             << [heading |-> <<"PROJECT DESCRIPTION">>, text |-> calls[1].result.text],
                [heading |-> <<"LAST", num_commits, "COMMITS IN PLAIN LANGUAGE">>,
                 text |-> calls[2].result.text],
                [heading |-> <<"DETAILED ANALYSIS OF RECENT EDITS">>,
                 text |-> edits_description] >>
        /\ exit_code = 0
  /\ PrintedSections # {} =>
        /\ pc = "done"
        /\ Len(calls) = IF Len(commits) > 1 THEN 3 ELSE 2
        /\ \A i \in 1..Len(calls) : calls[i].result.ok

C8_Witness ==
  /\ Succeeded
  /\ Len(commits) = 2
  /\ Len(calls) = 3
  /\ Len(output) = 3
  /\ output[1].text = "b"
  /\ output[2].text = "a"

(* -------------------------------- C9 ---------------------------------- *)
\* C9: the endpoint calls of a run are, in this order, project-description,
\* commit-explanation, edit-explanation, each at most once and never more
\* than three; a call is issued only when every earlier call returned a
\* text.
C9_CallsInOrderNoRetry ==
  /\ Len(calls) <= 3
  /\ \A i \in 1..Len(calls) : calls[i].kind = CallOrder[i]
  /\ \A i \in 1..(Len(calls) - 1) : calls[i].result.ok
  /\ pc \in {"call2", "edits", "diff", "call3", "print"} => LastResult.ok

C9_Witness ==
  /\ Failed
  /\ Len(commits) = 2
  /\ Len(calls) = 2
  /\ calls[1].result.ok
  /\ ~calls[2].result.ok

(* -------------------------------- C10 --------------------------------- *)
\* C10: the fixed "only one commit" notice is the edit summary only when
\* exactly one commit is reachable from head; a run with num_commits = 1 on
\* a repository with more commits sends the edit-explanation call instead.
C10_NoticeOnlyForSingleCommitRepository ==
  /\ edits_description = OnlyOneCommitNotice => C = 1
  /\ (Succeeded /\ num_commits = 1 /\ C > 1) => Len(calls) = 3
====
